---- MODULE Spec2Model ----
(***************************************************************************)
(* Model of pain-point-mining: the validation and clustering engine        *)
(* (src/src/agents/analyzer_agent.py, class Validation_Agent), the query   *)
(* and search agents (search_agent.py, scraper_agent.py) and the workflow  *)
(* that chains them (src/src/graph/workflow.py).                           *)
(*                                                                         *)
(* Text is modelled character by character: a Python str is a TLA+ string, *)
(* Chars(s) is its sequence of one-character strings, and lower(),         *)
(* re.search and re.findall are computed on those sequences.               *)
(* Time is counted in ticks of half a day; an instant is an integer number *)
(* of ticks and max_age_months is a rational number of months counted in   *)
(* units of 1/MonthDen month.                                              *)
(***************************************************************************)
EXTENDS Integers, Sequences, FiniteSets, TLC

VARIABLES
    supplied,           \* argument given to Validation_Agent(max_age_months=...)
    max_age_months,     \* self.max_age_months
    feedback_log,       \* self.feedback_log
    validated_details,  \* self.validated_details (NoAttr until the first call)
    op,                 \* the method that ran last, with its arguments
    ret,                \* what that method returned, or the exception it raised
    query_agent,        \* the Query_Generation_Agent (NoObject when there is none)
    tavily,             \* the TavilySearchAgent and the search it is running
    workflow            \* the Workflow and the run it is making

vars == <<supplied, max_age_months, feedback_log, validated_details, op, ret,
          query_agent, tavily, workflow>>

-----------------------------------------------------------------------------
(* Bounds *)

MaxBatch == 3        \* longest raw_results list handed to validate_results
MaxQuotes == 6       \* longest list handed directly to _cluster_quotes
MaxElapsed == 1      \* most ticks the clock advances between two reads in a call
MaxAgeProbe == 3     \* timestamps are probed this many ticks around a threshold
MaxSmallUnits == 3   \* max_age_months is probed this many 1/MonthDen around zero
MaxRepeatBatch == 2  \* longest batch when validate_results is called again and again
MaxQueryList == 2    \* longest hand-made list of queries handed to refine_queries
MaxSmallLimit == 3   \* max_queries is taken from 0..MaxSmallLimit and the default

-----------------------------------------------------------------------------
(* Python values, tagged with their type *)

PyNone == [type |-> "NoneType"]
PyStr(s) == [type |-> "str", s |-> s]
PyInt(n) == [type |-> "int", n |-> n]
PyDict(d) == [type |-> "dict", d |-> d]

\* a number of months, counted in units of 1/MonthDen month
MonthDen == 60
PyNum(units) == [type |-> "number", units |-> units]

\* a str that spells the instant `instant` in the notation `fmt`
TsStr(fmt, instant) == [type |-> "str", fmt |-> fmt, instant |-> instant]

\* a datetime; tzinfo is UTC or Naive
UTC == "UTC"
Naive == "<naive>"
DateTime(instant, tzinfo) == [type |-> "datetime", instant |-> instant, tzinfo |-> tzinfo]

\* an object that has not been constructed
NoObject == [type |-> "<no object>"]

NoAttr == [type |-> "<no attribute>"]

IsStr(v) == v.type = "str"
IsTsStr(v) == IsStr(v) /\ "fmt" \in DOMAIN v

\* bool(v)
Truthy(v) ==
    CASE v.type = "NoneType" -> FALSE
      [] v.type = "str" -> IF IsTsStr(v) THEN TRUE ELSE v.s # ""
      [] v.type = "int" -> v.n # 0
      [] v.type = "number" -> v.units # 0
      [] v.type = "dict" -> DOMAIN v.d # {}
      [] OTHER -> TRUE

\* a or b
OrElse(a, b) == IF Truthy(a) THEN a ELSE b

\* item.get(key, default) on a dict
DictGet(item, key, default) == IF key \in DOMAIN item.d THEN item.d[key] ELSE default

\* how a call ended: with a value, or with an exception propagating out of it
Returned(value) == [type |-> "returned", value |-> value]
Raised(exc) == [type |-> "raised", exc |-> exc]

Min(a, b) == IF a <= b THEN a ELSE b
Max(a, b) == IF a >= b THEN a ELSE b

\* int(x) for the rational x = n / d, d > 0: truncation toward zero
IntTrunc(n, d) == IF n >= 0 THEN n \div d ELSE -((-n) \div d)

\* n // d for n >= 0
FloorDiv(n, d) == n \div d

-----------------------------------------------------------------------------
(* Text *)

\* the characters of a str, as a tuple
Chars(s) == SubSeq([i \in 1..Len(s) |-> SubSeq(s, i, i)], 1, Len(s))

Range(f) == {f[i] : i \in DOMAIN f}

LowerLetters == Chars("abcdefghijklmnopqrstuvwxyz")
UpperLetters == Chars("ABCDEFGHIJKLMNOPQRSTUVWXYZ")
Digits == Chars("0123456789")

\* the characters matched by \w
WordChars == Range(LowerLetters) \cup Range(UpperLetters) \cup Range(Digits) \cup {"_"}

\* str.lower() of one character
ToLower == [c \in Range(UpperLetters) |->
               LowerLetters[CHOOSE i \in DOMAIN UpperLetters : UpperLetters[i] = c]]
LowerChar(c) == IF c \in DOMAIN ToLower THEN ToLower[c] ELSE c

\* str.lower(), as a sequence of characters
Lower(s) == SubSeq([i \in 1..Len(s) |-> LowerChar(SubSeq(s, i, i))], 1, Len(s))

\* is position k of txt a \w character (positions outside txt are not)
IsWordAt(txt, k) == k \in 1..Len(txt) /\ txt[k] \in WordChars

\* \b between txt[p-1] and txt[p], for p in 1..Len(txt)+1
WordBoundary(txt, p) == IsWordAt(txt, p - 1) # IsWordAt(txt, p)

\* a pattern \b<lit>\b, or \b<lit>.*\b when tail is TRUE
Pattern(lit, tail) == [lit |-> Chars(lit), tail |-> tail]

FRUSTRATION_PATTERNS == <<
    Pattern("i hate", FALSE),
    Pattern("so slow", FALSE),
    Pattern("so frustrating", FALSE),
    Pattern("this is useless", FALSE),
    Pattern("doesn't work", FALSE),
    Pattern("not working", FALSE),
    Pattern("never works", FALSE),
    Pattern("waste of time", FALSE),
    Pattern("broken", FALSE),
    Pattern("can't ", TRUE) >>

\* does pat match txt starting exactly at position i
MatchAt(pat, txt, i) ==
    LET n == Len(pat.lit)
    IN  /\ i + n - 1 <= Len(txt)
        /\ \A k \in 1..n : txt[i + k - 1] = pat.lit[k]
        /\ WordBoundary(txt, i)
        /\ IF pat.tail
           THEN \E j \in (i + n)..(Len(txt) + 1) :
                    /\ WordBoundary(txt, j)
                    /\ \A k \in (i + n)..(j - 1) : txt[k] # "\n"
           ELSE WordBoundary(txt, i + n)

\* re.search(pat, txt) is not None
re_search(pat, txt) == \E i \in 1..Len(txt) : MatchAt(pat, txt, i)

\* the maximal runs of \w characters of txt, as <<first, last>> positions
WordRuns(txt) ==
    LET starts == {a \in 1..Len(txt) : IsWordAt(txt, a) /\ ~IsWordAt(txt, a - 1)}
        ends == {b \in 1..Len(txt) : IsWordAt(txt, b) /\ ~IsWordAt(txt, b + 1)}
    IN  { <<a, CHOOSE b \in ends : b >= a /\ \A c \in ends : c >= a => b <= c>> : a \in starts }

\* set(re.findall(r"\w{4,}", txt)): the greedy match takes each whole run
TokenMinLen == 4
findall_tokens(txt) ==
    { SubSeq(txt, r[1], r[2]) : r \in { w \in WordRuns(txt) : w[2] - w[1] + 1 >= TokenMinLen } }

-----------------------------------------------------------------------------
(* Validation_Agent *)

DEFAULT_MAX_AGE_MONTHS == PyNum(24 * MonthDen)

TicksPerDay == 2
DaysPerMonth == 30
PrefixLen == 60

\* Validation_Agent.__init__: the value kept in self.max_age_months
init_max_age_months(arg) == OrElse(arg, DEFAULT_MAX_AGE_MONTHS)

\* the notations pd.to_datetime understands, and the ones tried by strptime
PandasFormats == {"iso_z", "iso_us_z", "date", "dmy", "natural"}
StrptimeFormats == <<"iso_z", "date", "dmy">>

\* dt.replace(tzinfo=timezone.utc)
ReplaceTz(dt) == DateTime(dt.instant, UTC)

\* pd.to_datetime(ts, utc=True, errors='coerce'); PyNone stands for NaT
pd_to_datetime(ts) ==
    IF IsTsStr(ts) /\ ts.fmt \in PandasFormats
    THEN DateTime(ts.instant, UTC)
    ELSE PyNone

\* datetime.strptime(str(ts), fmt): a naive datetime, or PyNone for ValueError
strptime(ts, fmt) ==
    IF IsTsStr(ts) /\ ts.fmt = fmt THEN DateTime(ts.instant, Naive) ELSE PyNone

\* the for loop over the explicit formats, from format number k on
RECURSIVE strptime_chain(_, _, _)
strptime_chain(ts, k, now) ==
    IF k > Len(StrptimeFormats)
    THEN DateTime(now, UTC)
    ELSE LET dt == strptime(ts, StrptimeFormats[k])
         IN  IF dt # PyNone THEN ReplaceTz(dt) ELSE strptime_chain(ts, k + 1, now)

\* Validation_Agent._parse_timestamp; pandas tells whether `import pandas` works
_parse_timestamp(ts, now, pandas) ==
    IF ~Truthy(ts)
    THEN DateTime(now, UTC)
    ELSE IF pandas
         THEN LET parsed == pd_to_datetime(ts)
              IN  IF parsed = PyNone
                  THEN DateTime(now, UTC)
                  ELSE IF parsed.tzinfo = Naive THEN ReplaceTz(parsed) ELSE parsed
         ELSE strptime_chain(ts, 1, now)

\* Validation_Agent._normalize: an entry, or PyNone
_normalize(item, now, pandas) ==
    CASE item.type = "str" ->
            [quote |-> item, source |-> PyStr("unknown"), url |-> PyNone,
             timestamp |-> DateTime(now, UTC)]
      [] item.type = "dict" ->
            LET quote == OrElse(DictGet(item, "text", PyNone),
                         OrElse(DictGet(item, "snippet", PyNone),
                         OrElse(DictGet(item, "quote", PyNone),
                                DictGet(item, "content", PyNone))))
                ts == OrElse(DictGet(item, "timestamp", PyNone),
                      OrElse(DictGet(item, "date", PyNone),
                             DictGet(item, "created_at", PyNone)))
            IN  IF ~Truthy(quote)
                THEN PyNone
                ELSE [quote |-> quote,
                      source |-> DictGet(item, "source", PyStr("unknown")),
                      url |-> DictGet(item, "url", PyNone),
                      timestamp |-> _parse_timestamp(ts, now, pandas)]
      [] OTHER -> PyNone

\* timedelta(days=int(self.max_age_months * 30)), in ticks
max_age(months) == IntTrunc(months.units * DaysPerMonth, MonthDen) * TicksPerDay

\* (variant: the filter lets every entry through)
_passes_recency_all(entry, now, months) == TRUE

\* Validation_Agent._passes_recency, with `now` the clock at this call
_passes_recency(entry, now, months) ==
    LET ts0 == OrElse(entry.timestamp, DateTime(now, UTC))
        ts == IF ts0.tzinfo = Naive THEN ReplaceTz(ts0) ELSE ts0
        age == now - ts.instant
    IN  age <= max_age(months)

\* (variant: every text counts as frustration)
_is_frustration_all(text) == TRUE

\* Validation_Agent._is_frustration, for a str
_is_frustration(text) ==
    \E txt \in {Lower(text.s)} :
        \E k \in DOMAIN FRUSTRATION_PATTERNS : re_search(FRUSTRATION_PATTERNS[k], txt)

MaxClusters == 5
ClusterDivisor == 3

\* n_clusters = min(5, max(1, len(quotes) // 3))
n_clusters(n) == Min(MaxClusters, Max(1, FloorDiv(n, ClusterDivisor)))

\* (variant: the scan keeps the last bucket that shares a token, not the first)
first_overlap_last(tokens, buckets) ==
    LET hits == {b \in DOMAIN buckets : tokens \cap buckets[b] # {}}
    IN  IF hits = {} THEN 0 ELSE CHOOSE x \in hits : \A y \in hits : x >= y

\* the inner loop of the except branch: the index (from 1) of the first bucket
\* that shares a token with `tokens`, or 0 when there is none
first_overlap(tokens, buckets) ==
    LET hits == {b \in DOMAIN buckets : tokens \cap buckets[b] # {}}
    IN  IF hits = {} THEN 0 ELSE CHOOSE x \in hits : \A y \in hits : x <= y

\* (variant: the tokens of a quote are not added to the bucket it joins)
RECURSIVE overlap_loop_no_update(_, _, _, _)
overlap_loop_no_update(quotes, i, clusters, buckets) ==
    IF i > Len(quotes)
    THEN clusters
    ELSE LET tokens == findall_tokens(Lower(quotes[i].s))
             b == first_overlap(tokens, buckets)
         IN  IF b # 0
             THEN overlap_loop_no_update(quotes, i + 1, Append(clusters, b - 1), buckets)
             ELSE overlap_loop_no_update(quotes, i + 1, Append(clusters, Len(buckets)),
                                         Append(buckets, tokens))

\* the except branch of _cluster_quotes: the loop from quote number i on
RECURSIVE overlap_loop(_, _, _, _)
overlap_loop(quotes, i, clusters, buckets) ==
    IF i > Len(quotes)
    THEN clusters
    ELSE LET tokens == findall_tokens(Lower(quotes[i].s))
             b == first_overlap(tokens, buckets)
         IN  IF b # 0
             THEN overlap_loop(quotes, i + 1, Append(clusters, b - 1),
                               [buckets EXCEPT ![b] = @ \cup tokens])
             ELSE overlap_loop(quotes, i + 1, Append(clusters, Len(buckets)),
                               Append(buckets, tokens))

overlap_clusters(quotes) == overlap_loop(quotes, 1, <<>>, <<>>)

\* what the sklearn path does in one call: it raises somewhere inside the try
\* block (ImportError, ValueError, ...), or KMeans labels every row; rows with
\* the same text have the same tf-idf vector and so the same label
PrimaryOutcomes(quotes) ==
    { [ok |-> FALSE] }
    \cup { [ok |-> TRUE, labels |-> f] :
             f \in [Range(quotes) -> 0..(n_clusters(Len(quotes)) - 1)] }

\* (variant: no except clause, a failure of the sklearn path propagates)
_cluster_quotes_no_except(quotes, primary) ==
    IF quotes = <<>>
    THEN Returned(<<>>)
    ELSE IF primary.ok
         THEN Returned([i \in 1..Len(quotes) |-> primary.labels[quotes[i]]])
         ELSE Raised("Exception")

\* Validation_Agent._cluster_quotes
_cluster_quotes(quotes, primary) ==
    IF quotes = <<>>
    THEN Returned(<<>>)
    ELSE IF primary.ok
         THEN Returned([i \in 1..Len(quotes) |-> primary.labels[quotes[i]]])
         ELSE Returned(overlap_clusters(quotes))

\* quote[:60]
Prefix(quote) == PyStr(SubSeq(quote.s, 1, Min(PrefixLen, Len(quote.s))))

\* the two notes appended to self.feedback_log
OutdatedNote(entry) ==
    [stage |-> "Dropped outdated", timestamp |-> entry.timestamp, quote |-> Prefix(entry.quote)]
NeutralNote(entry) ==
    [stage |-> "Filtered neutral", quote |-> Prefix(entry.quote)]

\* (variant: the frustration test comes before the recency test)
filter_step_swapped(item, months, env) ==
    LET entry == _normalize(item, env.now, env.pandas)
    IN  IF entry = PyNone
        THEN [do |-> "continue"]
        ELSE IF ~IsStr(entry.quote)
        THEN [do |-> "raise", exc |-> "AttributeError"]
        ELSE IF ~_is_frustration(entry.quote)
        THEN [do |-> "note", note |-> NeutralNote(entry)]
        ELSE IF ~_passes_recency(entry, env.later, months)
        THEN [do |-> "note", note |-> OutdatedNote(entry)]
        ELSE [do |-> "append", entry |-> entry]

\* the body of the first loop of validate_results for one item.  env holds
\* the clock read by _normalize (now), the clock read by _passes_recency
\* (later) and whether pandas can be imported.
filter_step(item, months, env) ==
    LET entry == _normalize(item, env.now, env.pandas)
    IN  IF entry = PyNone
        THEN [do |-> "continue"]
        ELSE IF ~_passes_recency(entry, env.later, months)
        THEN IF IsStr(entry.quote)
             THEN [do |-> "note", note |-> OutdatedNote(entry)]
             ELSE [do |-> "raise", exc |-> "TypeError"]
        ELSE IF ~IsStr(entry.quote)
        THEN [do |-> "raise", exc |-> "AttributeError"]
        ELSE IF ~_is_frustration(entry.quote)
        THEN [do |-> "note", note |-> NeutralNote(entry)]
        ELSE [do |-> "append", entry |-> entry]

\* the first loop of validate_results, from item number i on
RECURSIVE filter_loop(_, _, _, _, _, _)
filter_loop(raw_results, i, normalized, log, months, env) ==
    IF i > Len(raw_results)
    THEN [raised |-> "", normalized |-> normalized, log |-> log]
    ELSE LET step == filter_step(raw_results[i], months, env)
         IN  CASE step.do = "continue" ->
                    filter_loop(raw_results, i + 1, normalized, log, months, env)
               [] step.do = "note" ->
                    filter_loop(raw_results, i + 1, normalized, Append(log, step.note),
                                months, env)
               [] step.do = "append" ->
                    filter_loop(raw_results, i + 1, Append(normalized, step.entry), log,
                                months, env)
               [] step.do = "raise" ->
                    [raised |-> step.exc, normalized |-> normalized, log |-> log]

\* [e['quote'] for e in entries]
QuotesOf(entries) == [i \in DOMAIN entries |-> entries[i].quote]

\* for e, c in zip(normalized, clusters): e['cluster'] = c
tag_clusters(normalized, clusters) ==
    [i \in DOMAIN normalized |->
        IF i <= Len(clusters)
        THEN [quote |-> normalized[i].quote, source |-> normalized[i].source,
              url |-> normalized[i].url, timestamp |-> normalized[i].timestamp,
              cluster |-> clusters[i]]
        ELSE normalized[i]]

\* (variant: the test is missing, nothing counts as seen)
is_repeat_never(entry, seen) == FALSE

\* (variant: quotes are compared after lower-casing)
is_repeat_nocase(entry, seen) == \E q \in seen : Lower(q.s) = Lower(entry.quote.s)

\* the test `q in seen` of the second loop
is_repeat(entry, seen) == entry.quote \in seen

\* the second loop of validate_results, from entry number i on
RECURSIVE dedup_loop(_, _, _, _)
dedup_loop(normalized, i, seen, validated) ==
    IF i > Len(normalized)
    THEN validated
    ELSE IF is_repeat(normalized[i], seen)
         THEN dedup_loop(normalized, i + 1, seen, validated)
         ELSE dedup_loop(normalized, i + 1, seen \cup {normalized[i].quote},
                         Append(validated, normalized[i]))

\* the entries that reach the clustering step
survivors(raw_results, months, env) == filter_loop(raw_results, 1, <<>>, <<>>, months, env)

\* validate_results after its first loop: clustering, deduplication, return.
\* Gives the new feedback_log and validated_details and the value returned
\* (or the exception raised).
collate(f, old_details, primary) ==
    IF f.raised # ""
    THEN [feedback_log |-> f.log, validated_details |-> old_details,
          ret |-> Raised(f.raised)]
    ELSE LET clusters == _cluster_quotes(QuotesOf(f.normalized), primary)
         IN  IF clusters.type = "raised"
             THEN [feedback_log |-> f.log, validated_details |-> old_details,
                   ret |-> clusters]
             ELSE LET tagged == tag_clusters(f.normalized, clusters.value)
                      validated == dedup_loop(tagged, 1, {}, <<>>)
                  IN  [feedback_log |-> f.log, validated_details |-> validated,
                       ret |-> Returned(QuotesOf(validated))]

\* Validation_Agent.validate_results
validate_results(raw_results, months, old_details, env, primary) ==
    collate(survivors(raw_results, months, env), old_details, primary)

-----------------------------------------------------------------------------
(* Inputs *)

\* values given for max_age_months: none, and 1/60 month (half a day)
SuppliedValues == {PyNone, PyNum(1)}

\* an instant older than every threshold in use, counted from the call
StaleInstant == 0 - (max_age(DEFAULT_MAX_AGE_MONTHS) + 1)

Dict1(k1, v1) == PyDict((k1 :> v1))
Dict2(k1, v1, k2, v2) == PyDict((k1 :> v1) @@ (k2 :> v2))
Dict4(k1, v1, k2, v2, k3, v3, k4, v4) ==
    PyDict((k1 :> v1) @@ (k2 :> v2) @@ (k3 :> v3) @@ (k4 :> v4))

\* the records a batch is made of
RawItems == {
    PyStr("Broken"),
    PyStr("nice"),
    Dict4("text", PyStr("broken"), "source", PyStr("mock"),
          "url", PyStr("https://mock.example/0"), "timestamp", TsStr("iso_z", 0)),
    Dict2("snippet", PyStr("broken"), "timestamp", TsStr("natural", StaleInstant)),
    Dict4("text", PyStr(""), "quote", PyStr("nice"),
          "timestamp", PyNone, "date", TsStr("dmy", StaleInstant)),
    Dict2("content", PyStr("can't go"), "created_at", TsStr("garbage", StaleInstant)),
    Dict2("text", PyNone, "snippet", PyStr("")),
    Dict1("text", PyInt(5)) }

RECURSIVE SeqsUpTo(_, _)
SeqsUpTo(S, n) ==
    IF n = 0
    THEN {<<>>}
    ELSE LET shorter == SeqsUpTo(S, n - 1)
         IN  shorter \cup {Append(q, x) : q \in {p \in shorter : Len(p) = n - 1}, x \in S}

Batches == SeqsUpTo(RawItems, MaxBatch)

Envs == { [now |-> 0, later |-> e, pandas |-> p] : e \in 0..MaxElapsed, p \in BOOLEAN }

-----------------------------------------------------------------------------------------------------------------------------------------------------
(* Query_Generation_Agent (search_agent.py) *)

\* the characters str.strip() and str.split() treat as white space
Whitespace == {" ", "\t", "\n", "\r"}

\* str.strip() of a sequence of characters
RECURSIVE Strip(_)
Strip(cs) ==
    IF cs = <<>> THEN cs
    ELSE IF cs[1] \in Whitespace THEN Strip(Tail(cs))
    ELSE IF cs[Len(cs)] \in Whitespace THEN Strip(SubSeq(cs, 1, Len(cs) - 1))
    ELSE cs

\* q.lower().strip(), the key under which a query counts as seen
QueryKey(q) == Strip(Lower(q))

\* lit in str(fb).lower()
Contains(lit, fb) ==
    \E cs \in {Lower(fb)}, ls \in {Chars(lit)} :
        \E i \in 1..(Len(cs) - Len(ls) + 1) : SubSeq(cs, i, i + Len(ls) - 1) = ls

\* q.split(): the maximal runs of characters that are not white space
Split(q) ==
    LET isword(k) == k \in 1..Len(q) /\ SubSeq(q, k, k) \notin Whitespace
        starts == {a \in 1..Len(q) : isword(a) /\ ~isword(a - 1)}
        endof(a) == CHOOSE b \in a..Len(q) :
                        /\ \A k \in a..b : isword(k)
                        /\ ~isword(b + 1)
    IN  [k \in 1..Cardinality(starts) |->
            LET a == CHOOSE x \in starts : Cardinality({y \in starts : y < x}) = k - 1
            IN  SubSeq(q, a, endof(a))]

\* " ".join(tokens[-2:])
JoinLastTwo(tokens) ==
    IF Len(tokens) = 0 THEN ""
    ELSE IF Len(tokens) = 1 THEN tokens[1]
    ELSE tokens[Len(tokens) - 1] \o " " \o tokens[Len(tokens)]

\* the concatenation of a sequence of lists
RECURSIVE Flatten(_)
Flatten(lists) == IF lists = <<>> THEN <<>> ELSE Head(lists) \o Flatten(Tail(lists))

DEFAULT_MAX_QUERIES == 20

\* the loop "deduplicate & limit", from query number i on: a query is kept
\* when its key is new, and the loop stops once max_queries are kept
RECURSIVE dedupe(_, _, _, _, _)
dedupe(queries, i, seen, out, max_queries) ==
    IF i > Len(queries)
    THEN out
    ELSE LET key == QueryKey(queries[i])
             fresh == key \notin seen
             out1 == IF fresh THEN Append(out, queries[i]) ELSE out
         IN  IF Len(out1) >= max_queries
             THEN out1
             ELSE dedupe(queries, i + 1, IF fresh THEN seen \cup {key} ELSE seen, out1,
                         max_queries)

\* the queries generate_queries builds before it diversifies them; subject
\* is a str, target_audience a str or None
base_queries(subject, target_audience, fb_log) ==
    LET aud == Truthy(target_audience)
    IN  <<subject \o " complaints">>
        \o (IF aud THEN <<subject \o " complaints from " \o target_audience.s,
                          target_audience.s \o " frustrations with " \o subject>>
            ELSE <<>>)
        \o <<"frustrations about " \o subject,
             "why people hate " \o subject,
             subject \o " performance issues",
             subject \o " bottlenecks",
             subject \o " productivity problems",
             subject \o " integration problems",
             subject \o " data loss",
             subject \o " crash">>
        \o (IF aud THEN <<target_audience.s \o " problems with " \o subject,
                          "what " \o target_audience.s \o " hate about " \o subject>>
            ELSE <<>>)
        \o Flatten([k \in DOMAIN fb_log |->
                      LET fb_clean == fb_log[k]
                      IN  IF Strip(Chars(fb_clean)) = <<>> THEN <<>>
                          ELSE <<subject \o " " \o fb_clean,
                                 subject \o " problems: " \o fb_clean>>])

\* the short variants of one query
variants(q) ==
    <<q \o " issues", q \o " complaints">>
    \o (IF \E k \in 1..Len(q) : SubSeq(q, k, k) = " "
        THEN <<JoinLastTwo(Split(q))>>
        ELSE <<>>)

\* Query_Generation_Agent.generate_queries; fb_log is the feedback_log,
\* a list of strs
generate_queries(subject, target_audience, fb_log, max_queries) ==
    LET queries == base_queries(subject, target_audience, fb_log)
        extra == Flatten([k \in DOMAIN queries |-> variants(queries[k])])
    IN  dedupe(queries \o extra, 1, {}, <<>>, max_queries)

\* what refine_queries makes of one query
refined_of(base, focus_tools, focus_bottlenecks, too_generic) ==
    (IF focus_tools THEN <<base \o " specific tool", base \o " integration with X">> ELSE <<>>)
    \o (IF focus_bottlenecks THEN <<base \o " bottleneck", base \o " slow">> ELSE <<>>)
    \o (IF too_generic THEN <<base \o " error messages", base \o " stack traces">> ELSE <<>>)
    \o <<base>>

\* Query_Generation_Agent.refine_queries
refine_queries(generated_queries, fb_log, max_queries) ==
    LET focus_tools == \E k \in DOMAIN fb_log : Contains("tool", fb_log[k])
        focus_bottlenecks == \E k \in DOMAIN fb_log : Contains("bottleneck", fb_log[k])
        too_generic == \E k \in DOMAIN fb_log : Contains("generic", fb_log[k])
        refined == Flatten([k \in DOMAIN generated_queries |->
                              refined_of(generated_queries[k], focus_tools,
                                         focus_bottlenecks, too_generic)])
    IN  IF refined = <<>>
        THEN generated_queries
        ELSE dedupe(refined, 1, {}, <<>>, max_queries)

-----------------------------------------------------------------------------
(* Inputs of the calls made directly on one method *)

\* values given for max_age_months when the recency filter is studied
RecencySupplied ==
    {PyNone} \cup {PyNum(u) : u \in (0 - MaxSmallUnits)..MaxSmallUnits} \cup {PyNum(MonthDen)}

\* ages from which timestamps are taken: around zero and around a threshold t
ProbedAges(t) == ((0 - MaxAgeProbe)..MaxAgeProbe) \cup ((t - MaxAgeProbe)..(t + MaxAgeProbe))

EntryAt(dt) ==
    [quote |-> PyStr("broken"), source |-> PyStr("unknown"), url |-> PyNone, timestamp |-> dt]

\* a key that the dict does not have
Absent == [type |-> "<absent>"]
Opt(key, value) == IF value = Absent THEN <<>> ELSE (key :> value)

NormalizeDicts ==
    { PyDict(Opt("text", t) @@ Opt("snippet", sn) @@ Opt("quote", q) @@ Opt("content", c)
             @@ Opt("timestamp", ts) @@ Opt("date", d) @@ Opt("created_at", ca)
             @@ Opt("source", src)) :
        t \in {Absent, PyNone, PyStr(""), PyStr("broken"), PyInt(5)},
        sn \in {Absent, PyStr("so slow")},
        q \in {Absent, PyStr("")},
        c \in {Absent, PyStr("nice")},
        ts \in {Absent, TsStr("garbage", StaleInstant), TsStr("iso_z", StaleInstant)},
        d \in {Absent, TsStr("natural", 0 - 1)},
        ca \in {Absent, TsStr("dmy", 0 - 2)},
        src \in {Absent, PyStr("mock")} }

NormalizeItems == {PyStr(""), PyStr("broken"), PyInt(7), PyNone} \cup NormalizeDicts

\* quotes handed to _cluster_quotes; each matches a frustration pattern
ClusterTexts == {PyStr("broken"), PyStr("broken chat"), PyStr("i hate chat"), PyStr("can't go")}

QuoteLists == SeqsUpTo(ClusterTexts, MaxQuotes)

-----
(* The agent as a state machine *)

\* a fresh agent built with one of the values `values`
Construct(values) ==
    /\ supplied \in values
    /\ max_age_months = init_max_age_months(supplied)
    /\ feedback_log = <<>>
    /\ validated_details = NoAttr
    /\ op = [name |-> "__init__"]
    /\ ret = Returned(PyNone)
    /\ query_agent = NoObject
    /\ tavily = NoObject
    /\ workflow = NoObject

Init == Construct(SuppliedValues)

\* one call agent.validate_results(raw_results)
ValidateResults ==
    /\ op.name = "__init__"
    /\ \E raw_results \in Batches, env \in Envs :
         \E f \in {survivors(raw_results, max_age_months, env)} :
           \E primary \in PrimaryOutcomes(QuotesOf(f.normalized)) :
             \E r \in {collate(f, validated_details, primary)} :
                /\ feedback_log' = r.feedback_log
                /\ validated_details' = r.validated_details
                /\ ret' = r.ret
                /\ op' = [name |-> "validate_results", raw_results |-> raw_results,
                          env |-> env, primary |-> primary]
                /\ UNCHANGED <<query_agent, tavily, workflow, supplied, max_age_months>>

Next == ValidateResults

Spec == Init /\ [][Next]_vars

\* one call agent._passes_recency(entry)
PassesRecency ==
    /\ op.name = "__init__"
    /\ \E now \in 0..MaxElapsed, tz \in {UTC, Naive} :
         \E age \in ProbedAges(max_age(max_age_months)) :
           LET entry == EntryAt(DateTime(now - age, tz))
           IN  /\ ret' = Returned(_passes_recency(entry, now, max_age_months))
               /\ op' = [name |-> "_passes_recency", entry |-> entry, now |-> now]
               /\ UNCHANGED <<query_agent, tavily, workflow, supplied, max_age_months, feedback_log, validated_details>>

InitRecency == Construct(RecencySupplied)
SpecRecency == InitRecency /\ [][PassesRecency]_vars

\* one call agent._normalize(item)
Normalize ==
    /\ op.name = "__init__"
    /\ \E item \in NormalizeItems, now \in 0..MaxElapsed, pandas \in BOOLEAN :
           /\ ret' = Returned(_normalize(item, now, pandas))
           /\ op' = [name |-> "_normalize", item |-> item, now |-> now, pandas |-> pandas]
           /\ UNCHANGED <<query_agent, tavily, workflow, supplied, max_age_months, feedback_log, validated_details>>

InitDefault == Construct({PyNone})
SpecNormalize == InitDefault /\ [][Normalize]_vars

\* one call agent._cluster_quotes(quotes)
ClusterQuotes ==
    /\ op.name = "__init__"
    /\ \E quotes \in QuoteLists :
         \E primary \in PrimaryOutcomes(quotes) :
           /\ ret' = _cluster_quotes(quotes, primary)
           /\ op' = [name |-> "_cluster_quotes", quotes |-> quotes, primary |-> primary]
           /\ UNCHANGED <<query_agent, tavily, workflow, supplied, max_age_months, feedback_log, validated_details>>

SpecCluster == InitDefault /\ [][ClusterQuotes]_vars

\* the records of the batches handed to one agent call after call: a quote
\* that survives, one that is noted, one that is dropped silently and one
\* whose text is not a str
RepeatItems == {
    PyStr("Broken"),
    PyStr("nice"),
    Dict2("text", PyNone, "snippet", PyStr("")),
    Dict1("text", PyInt(5)) }

RepeatBatches == SeqsUpTo(RepeatItems, MaxRepeatBatch)

\* one more call agent.validate_results(raw_results), on a fresh agent or on
\* one that has been called before (whether that call returned or raised)
ValidateResultsAgain ==
    /\ op.name \in {"__init__", "validate_results"}
    /\ \E raw_results \in RepeatBatches, env \in Envs :
         \E f \in {survivors(raw_results, max_age_months, env)} :
           \E primary \in PrimaryOutcomes(QuotesOf(f.normalized)) :
             \E r \in {collate(f, validated_details, primary)} :
                /\ feedback_log' = r.feedback_log
                /\ validated_details' = r.validated_details
                /\ ret' = r.ret
                /\ op' = [name |-> "validate_results", raw_results |-> raw_results,
                          env |-> env, primary |-> primary]
                /\ UNCHANGED <<query_agent, tavily, workflow, supplied, max_age_months>>

SpecRepeat == Init /\ [][ValidateResultsAgain]_vars

-----------------------------------------------------------------------------------------------------------------------------------------------------
(* What the properties speak about: the call recorded in op, item by item *)

ValidateReturned == op.name = "validate_results" /\ ret.type = "returned"

Positions == DOMAIN op.raw_results

\* the first 60 characters of a quote
PrefixOf(quote) == IF Len(quote.s) <= PrefixLen THEN quote.s ELSE SubSeq(quote.s, 1, PrefixLen)

\* what the call makes of one item: its normalized entry (or PyNone), whether
\* the entry is older than the threshold of the recency filter when the filter
\* looks at it, and whether a frustration pattern matches its lower-cased quote
FateOf(item) ==
    LET e == _normalize(item, op.env.now, op.env.pandas)
    IN  [entry |-> e,
         usable |-> e # PyNone,
         stale |-> e # PyNone /\ op.env.later - e.timestamp.instant
                       > IntTrunc(max_age_months.units * DaysPerMonth, MonthDen) * TicksPerDay,
         frustrated |-> e # PyNone /\ IsStr(e.quote)
                        /\ \E txt \in {Lower(e.quote.s)} :
                              \E k \in DOMAIN FRUSTRATION_PATTERNS :
                                  re_search(FRUSTRATION_PATTERNS[k], txt)]

\* the fates of the items of the batch, in input order
Fates == SubSeq([i \in Positions |-> FateOf(op.raw_results[i])], 1, Len(op.raw_results))

Passing(fate) == fate.usable /\ ~fate.stale /\ fate.frustrated

\* the members of a set of positions, in increasing order
Ordered(S) ==
    SubSeq([k \in 1..Cardinality(S) |-> CHOOSE i \in S : Cardinality({j \in S : j < i}) = k - 1],
           1, Cardinality(S))

HasOutdatedNote(entry) ==
    \E j \in DOMAIN feedback_log :
        /\ feedback_log[j].stage = "Dropped outdated"
        /\ feedback_log[j].timestamp = entry.timestamp
        /\ feedback_log[j].quote.s = PrefixOf(entry.quote)

HasNeutralNote(entry) ==
    \E j \in DOMAIN feedback_log :
        /\ feedback_log[j].stage = "Filtered neutral"
        /\ feedback_log[j].quote.s = PrefixOf(entry.quote)

-----------------------------------------------------------------------------
(* Properties of validate_results *)

\* C1: the list returned by validate_results, and the records kept in
\* validated_details, never hold the same quote text twice (exact,
\* case-sensitive equality).
C1_NoDuplicateQuotes ==
    ValidateReturned =>
        /\ \A i, j \in DOMAIN ret.value : i # j => ret.value[i] # ret.value[j]
        /\ \A i, j \in DOMAIN validated_details :
               i # j => validated_details[i].quote # validated_details[j].quote

\* a batch in which a surviving quote occurs twice has been validated
C1_Witness ==
    /\ ValidateReturned
    /\ Len(ret.value) >= 1
    /\ \E fates \in {Fates} :
         \E i, j \in DOMAIN fates :
           /\ i < j
           /\ Passing(fates[i]) /\ Passing(fates[j])
           /\ fates[i].entry.quote = fates[j].entry.quote

\* C2: validate_results returns, in input order, the quotes of the usable
\* entries that pass the recency filter and match a frustration pattern, each
\* repeat of an already emitted quote removed; validated_details keeps for each
\* of them the record of its first occurrence, with that occurrence's own
\* cluster id (the id at its place among the passing entries).
C2_OutputIsFirstOccurrences ==
    ValidateReturned =>
      \A fates \in {Fates} :
        \A passing \in {Ordered({i \in DOMAIN fates : Passing(fates[i])})} :
          \A ids \in {_cluster_quotes([k \in DOMAIN passing |-> fates[passing[k]].entry.quote],
                                      op.primary).value} :
            \A kept \in {Ordered({passing[k] : k \in
                           {k \in DOMAIN passing : \A h \in 1..(k - 1) :
                               fates[passing[h]].entry.quote # fates[passing[k]].entry.quote}})} :
                /\ ret.value = [k \in DOMAIN kept |-> fates[kept[k]].entry.quote]
                /\ DOMAIN validated_details = DOMAIN kept
                /\ \A k \in DOMAIN kept :
                     \A e \in {fates[kept[k]].entry}, v \in {validated_details[k]} :
                       /\ v.quote = e.quote
                       /\ v.source = e.source
                       /\ v.url = e.url
                       /\ v.timestamp = e.timestamp
                       /\ \E h \in DOMAIN passing : passing[h] = kept[k] /\ v.cluster = ids[h]

\* a batch was validated in which a passing quote is repeated by a different
\* record and another passing quote is kept as well
C2_Witness ==
    /\ ValidateReturned
    /\ Len(ret.value) = 2
    /\ \E fates \in {Fates} :
         \E i, j \in DOMAIN fates :
           /\ i < j
           /\ Passing(fates[i]) /\ Passing(fates[j])
           /\ fates[i].entry.quote = fates[j].entry.quote
           /\ fates[i].entry.source # fates[j].entry.source
           /\ validated_details[1].source = fates[i].entry.source

\* C3: a usable entry whose timestamp is older than the age threshold is not
\* among the validated records (none has its quote and timestamp), whether or
\* not its quote matches a frustration pattern, and the feedback log holds an
\* 'outdated' note for it.
C3_StaleExcludedAndNoted ==
    ValidateReturned =>
      \A fates \in {Fates} :
        \A i \in DOMAIN fates :
            (fates[i].usable /\ fates[i].stale) =>
                /\ ~\E k \in DOMAIN validated_details :
                       /\ validated_details[k].quote = fates[i].entry.quote
                       /\ validated_details[k].timestamp = fates[i].entry.timestamp
                /\ HasOutdatedNote(fates[i].entry)

\* a stale entry whose quote matches a frustration pattern has been validated
\* together with an entry that passes
C3_Witness ==
    /\ ValidateReturned
    /\ \E fates \in {Fates} :
         /\ \E i \in DOMAIN fates : fates[i].usable /\ fates[i].stale /\ fates[i].frustrated
         /\ \E i \in DOMAIN fates : Passing(fates[i])

\* C4 as stated: a usable entry whose lower-cased quote matches no frustration
\* pattern is absent from the output and has a 'neutral' note in the log.
C4_NeutralAlwaysNotedNeutral ==
    ValidateReturned =>
      \A fates \in {Fates} :
        \A i \in DOMAIN fates :
            (fates[i].usable /\ ~fates[i].frustrated) =>
                /\ \A k \in DOMAIN ret.value : ret.value[k] # fates[i].entry.quote
                /\ HasNeutralNote(fates[i].entry)

\* C4, amended: a usable entry whose lower-cased quote matches no frustration
\* pattern is absent from the output and has a note in the log: a 'neutral'
\* note when it passed the recency filter, the 'outdated' note when it did not.
C4_NeutralExcludedAndNoted ==
    ValidateReturned =>
      \A fates \in {Fates} :
        \A i \in DOMAIN fates :
            (fates[i].usable /\ ~fates[i].frustrated) =>
                /\ \A k \in DOMAIN ret.value : ret.value[k] # fates[i].entry.quote
                /\ IF fates[i].stale
                   THEN HasOutdatedNote(fates[i].entry)
                   ELSE HasNeutralNote(fates[i].entry)

\* a batch with a recent neutral entry, a stale neutral entry and an entry
\* that passes was validated
C4_Witness ==
    /\ ValidateReturned
    /\ \E fates \in {Fates} :
         /\ \E i \in DOMAIN fates : fates[i].usable /\ ~fates[i].frustrated /\ ~fates[i].stale
         /\ \E i \in DOMAIN fates : fates[i].usable /\ ~fates[i].frustrated /\ fates[i].stale
         /\ \E i \in DOMAIN fates : Passing(fates[i])

\* the note expected for a rejected entry
NoteOf(fate) ==
    IF fate.stale
    THEN [stage |-> "Dropped outdated", timestamp |-> fate.entry.timestamp,
          quote |-> PyStr(PrefixOf(fate.entry.quote))]
    ELSE [stage |-> "Filtered neutral", quote |-> PyStr(PrefixOf(fate.entry.quote))]

Rejected(fate) == fate.usable /\ (fate.stale \/ ~fate.frustrated)

\* C10: when validate_results has returned, feedback_log holds one note for
\* each usable entry rejected by the recency filter or by the frustration
\* filter, in input order, and nothing else: no note for an unusable entry or
\* a collapsed duplicate, and only the 'outdated' note for an entry that is
\* stale and neutral.
C10_LogIsTheRejections ==
    ValidateReturned =>
      \A fates \in {Fates} :
        \A rejected \in {Ordered({i \in DOMAIN fates : Rejected(fates[i])})} :
            feedback_log = [k \in DOMAIN rejected |-> NoteOf(fates[rejected[k]])]

\* a batch with an unusable record and two rejected entries, the first neutral
\* and the second stale and neutral, was validated
C10_Witness ==
    /\ ValidateReturned
    /\ Len(feedback_log) = 2
    /\ \E fates \in {Fates} :
         /\ \E i \in DOMAIN fates : ~fates[i].usable
         /\ \E i, j \in DOMAIN fates :
              /\ i < j
              /\ fates[i].usable /\ ~fates[i].stale /\ ~fates[i].frustrated
              /\ fates[j].usable /\ fates[j].stale /\ ~fates[j].frustrated

-----
(* Properties of _cluster_quotes *)

ClusterCalled == op.name = "_cluster_quotes"

\* C5: two identical quotes of one batch get the same cluster id, under the
\* primary strategy and under the fallback strategy alike, also when the
\* quote has no word of four or more characters.
C5_SameQuoteSameCluster ==
    (ClusterCalled /\ ret.type = "returned") =>
        \A i, j \in DOMAIN op.quotes :
            op.quotes[i] = op.quotes[j] => ret.value[i] = ret.value[j]

\* C6: _cluster_quotes never raises; whether the primary strategy worked or
\* failed, it returns one non-negative integer per quote (no id for no quote).
C6_ClusterIdsWellFormed ==
    ClusterCalled =>
        /\ ret.type = "returned"
        /\ DOMAIN ret.value = DOMAIN op.quotes
        /\ \A i \in DOMAIN ret.value : ret.value[i] \in Nat

\* the primary strategy failed on three quotes or more and the fallback put
\* them in more than one cluster
C6_Witness ==
    /\ ClusterCalled
    /\ ~op.primary.ok
    /\ Len(op.quotes) >= 3
    /\ ret.type = "returned"
    /\ \E i, j \in DOMAIN ret.value : ret.value[i] # ret.value[j]

\* the fallback strategy clustered the quotes of the call
FallbackUsed == ClusterCalled /\ ~op.primary.ok /\ ret.type = "returned"

\* the token sets of the quotes of the call, in input order
TokensOfCall ==
    SubSeq([k \in DOMAIN op.quotes |-> findall_tokens(Lower(op.quotes[k].s))],
           1, Len(op.quotes))

\* the tokens gathered in cluster c by the quotes before position j
BucketBefore(toks, c, j) == UNION {toks[k] : k \in {h \in 1..(j - 1) : ret.value[h] = c}}

\* C14 as stated: under the fallback strategy, any two quotes of one batch with
\* a common lower-cased word-token of length at least 4 receive the same
\* cluster id, whatever other quotes precede or separate them.
C14_SharedTokenSameCluster ==
    FallbackUsed =>
      \A toks \in {TokensOfCall} :
        \A i, j \in DOMAIN toks :
            toks[i] \cap toks[j] # {} => ret.value[i] = ret.value[j]

\* C14, amended: under the fallback strategy, of two quotes with a common
\* token the later one never gets a higher cluster id than the earlier one,
\* and it gets the same id exactly when it shares no token with the tokens
\* gathered so far in a lower-numbered cluster.
C14_SharedTokenSameOrLowerCluster ==
    FallbackUsed =>
      \A toks \in {TokensOfCall} :
        \A i, j \in DOMAIN toks :
            (i < j /\ toks[i] \cap toks[j] # {}) =>
                /\ ret.value[j] <= ret.value[i]
                /\ ret.value[j] = ret.value[i]
                     <=> \A c \in 0..(ret.value[i] - 1) :
                            BucketBefore(toks, c, j) \cap toks[j] = {}

\* the fallback clustered a list in which two quotes with a common token are
\* separated by a quote of another cluster and still share their id, and a
\* list in which a quote went to a lower cluster than a quote it shares a
\* token with
C14_Witness ==
    /\ FallbackUsed
    /\ \E toks \in {TokensOfCall} :
         /\ \E i, j \in DOMAIN toks :
              /\ i + 1 < j
              /\ toks[i] \cap toks[j] # {}
              /\ ret.value[i] = ret.value[j]
              /\ ret.value[i + 1] # ret.value[i]
         /\ \E i, j \in DOMAIN toks :
              /\ i < j
              /\ toks[i] \cap toks[j] # {}
              /\ ret.value[j] < ret.value[i]

\* the cluster ids given to the quotes before position j
IdsBefore(j) == {ret.value[k] : k \in 1..(j - 1)}

\* the clusters existing before position j whose gathered tokens meet those
\* of the quote at position j
Meeting(toks, j) == {c \in IdsBefore(j) : BucketBefore(toks, c, j) \cap toks[j] # {}}

\* C16: under the fallback strategy the quote at each position receives a
\* fresh cluster id if and only if its token set is disjoint from the tokens
\* of every earlier quote; a fresh id equals the number of clusters created
\* before it, so the first quote gets 0 and the ids of a batch of n >= 1
\* quotes are exactly 0..m-1 for some 1 <= m <= n; otherwise the quote
\* receives the lowest-indexed existing cluster whose gathered tokens
\* intersect its own.
C16_FreshIffDisjoint ==
    FallbackUsed =>
      \A toks \in {TokensOfCall} :
        /\ \A j \in DOMAIN toks :
             IF toks[j] \cap UNION {toks[k] : k \in 1..(j - 1)} = {}
             THEN /\ ret.value[j] \notin IdsBefore(j)
                  /\ ret.value[j] = Cardinality(IdsBefore(j))
             ELSE /\ ret.value[j] \in Meeting(toks, j)
                  /\ \A c \in Meeting(toks, j) : ret.value[j] <= c
        /\ Len(toks) >= 1 =>
             /\ ret.value[1] = 0
             /\ \E m \in 1..Len(toks) : Range(ret.value) = 0..(m - 1)

\* the fallback clustered a list in which a later quote opened a new cluster
\* and another joined the lower of two clusters whose tokens it shares
C16_Witness ==
    /\ FallbackUsed
    /\ \E toks \in {TokensOfCall} :
         /\ \E j \in DOMAIN toks :
              j > 1 /\ toks[j] # {} /\ ret.value[j] \notin IdsBefore(j)
         /\ \E j \in DOMAIN toks :
              Cardinality(Meeting(toks, j)) >= 2 /\ ret.value[j] = 0

-----------------------------------------------------------------------------
(* Properties of _passes_recency and of timestamps *)

\* the value the caller asked for: the argument, or 24 months without one
AskedMonths == IF supplied = PyNone THEN PyNum(24 * MonthDen) ELSE supplied

\* C7: the recency filter accepts an entry if and only if
\* now - timestamp <= max_age_months * 30 days, max_age_months being the value
\* the caller supplied (24 when none was supplied), whatever that value is.
C7_AcceptIffWithinSuppliedMonths ==
    op.name = "_passes_recency" =>
        LET age == op.now - op.entry.timestamp.instant
        IN  ret.value <=> (age * MonthDen <= AskedMonths.units * DaysPerMonth * TicksPerDay)

\* the timestamp field _normalize takes from a dict
TimestampField(item) ==
    LET get(k) == IF k \in DOMAIN item.d THEN item.d[k] ELSE PyNone
    IN  IF Truthy(get("timestamp")) THEN get("timestamp")
        ELSE IF Truthy(get("date")) THEN get("date")
        ELSE get("created_at")

\* neither the general parser nor an explicit format reads ts
Unreadable(ts, pandas) ==
    \/ ~Truthy(ts)
    \/ /\ IsTsStr(ts)
       /\ IF pandas THEN ts.fmt \notin PandasFormats ELSE ts.fmt \notin Range(StrptimeFormats)

\* C8: an entry whose timestamp field is missing or cannot be parsed gets the
\* current instant as timestamp and is never rejected by the recency filter.
C8_DefaultedNeverOutdated ==
    ValidateReturned =>
      \A fates \in {Fates} :
        \A i \in DOMAIN fates :
            (/\ op.raw_results[i].type = "dict"
             /\ fates[i].usable
             /\ Unreadable(TimestampField(op.raw_results[i]), op.env.pandas)) =>
                /\ fates[i].entry.timestamp = DateTime(op.env.now, UTC)
                /\ ~HasOutdatedNote(fates[i].entry)

-----------------------------------------------------------------------------
(* Properties of _normalize *)

\* the text fields of a dict, in the order _normalize tries them
TextFields == <<"text", "snippet", "quote", "content">>

\* the item holds a non-empty text
HasText(item) ==
    \/ item.type = "str" /\ item.s # ""
    \/ /\ item.type = "dict"
       /\ \E k \in DOMAIN TextFields :
              /\ TextFields[k] \in DOMAIN item.d
              /\ item.d[TextFields[k]].type = "str"
              /\ item.d[TextFields[k]].s # ""

\* C9: every entry _normalize emits, for a bare string and for a structured
\* record, has a non-empty quote string and a non-null timezone-aware
\* timestamp; an input with no non-empty text gives no entry.
C9_EntryWellFormed ==
    op.name = "_normalize" =>
        /\ ret.value # PyNone =>
               /\ ret.value.quote.type = "str"
               /\ ret.value.quote.s # ""
               /\ ret.value.timestamp.type = "datetime"
               /\ ret.value.timestamp.tzinfo = UTC
        /\ ~HasText(op.item) => ret.value = PyNone

-----------------------------------------------------------------------------
(* The query agent as a state machine *)

\* the values given for max_queries
MaxQueriesValues == (0..MaxSmallLimit) \cup {DEFAULT_MAX_QUERIES}

Subjects == {"customer service", "app"}
Audiences == {PyNone, PyStr(""), PyStr("users")}

\* feedback logs: none, the three messages of the docstring of refine_queries,
\* two of them together, and one that is blank
FeedbackLogs == {
    <<>>,
    <<"too generic">>,
    <<"focus on bottlenecks and tool names">>,
    <<"results are outdated">>,
    <<"results are outdated", "Too Generic">>,
    <<" ">> }

\* the queries generate_queries gives for the default subject and audience
DefaultQueries ==
    generate_queries("customer service", PyStr("users"), <<>>, DEFAULT_MAX_QUERIES)

QueryTexts == {"crash", "Crash ", "slow app"}
QueryLists == SeqsUpTo(QueryTexts, MaxQueryList) \cup {DefaultQueries}

\* a Query_Generation_Agent(max_queries) and nothing else
InitQueries ==
    /\ supplied = PyNone
    /\ max_age_months = NoAttr
    /\ feedback_log = <<>>
    /\ validated_details = NoAttr
    /\ op = [name |-> "__init__"]
    /\ ret = Returned(PyNone)
    /\ query_agent \in {[max_queries |-> n] : n \in MaxQueriesValues}
    /\ tavily = NoObject
    /\ workflow = NoObject

\* one call agent.generate_queries(subject, target_audience, feedback_log)
GenerateQueries ==
    /\ op.name = "__init__"
    /\ \E subject \in Subjects, target_audience \in Audiences, fb_log \in FeedbackLogs :
          /\ ret' = Returned(generate_queries(subject, target_audience, fb_log,
                                              query_agent.max_queries))
          /\ op' = [name |-> "generate_queries", subject |-> subject,
                    target_audience |-> target_audience, feedback_log |-> fb_log]
          /\ UNCHANGED <<query_agent, tavily, workflow, supplied, max_age_months,
                         feedback_log, validated_details>>

\* one call agent.refine_queries(generated_queries, feedback_log)
RefineQueries ==
    /\ op.name = "__init__"
    /\ \E generated_queries \in QueryLists, fb_log \in FeedbackLogs :
          /\ ret' = Returned(refine_queries(generated_queries, fb_log,
                                            query_agent.max_queries))
          /\ op' = [name |-> "refine_queries", generated_queries |-> generated_queries,
                    feedback_log |-> fb_log]
          /\ UNCHANGED <<query_agent, tavily, workflow, supplied, max_age_months,
                         feedback_log, validated_details>>

SpecQueries == InitQueries /\ [][GenerateQueries \/ RefineQueries]_vars

-----------------------------------------------------------------------------
(* Properties of refine_queries *)

\* C18: for every list of generated queries and every feedback log, the list
\* refine_queries returns contains every query of the input list, has no two
\* entries equal after lower-casing and stripping, and has at most
\* max_queries entries.
C18_KeepsSeedsUniqueBounded ==
    op.name = "refine_queries" =>
        /\ Range(op.generated_queries) \subseteq Range(ret.value)
        /\ \A i, j \in DOMAIN ret.value :
               i # j => QueryKey(ret.value[i]) # QueryKey(ret.value[j])
        /\ Len(ret.value) <= query_agent.max_queries

-----------------------------------------------------------------------------
(* TavilySearchAgent (search_agent.py) *)

\* utils.config.get_env(name): the value of the environment variable, or None
get_env(environ, name) == IF name \in DOMAIN environ THEN environ[name] ELSE PyNone

\* a requests.Session (any object that is truthy)
Session == [type |-> "Session"]

\* seq[:n]
SliceTo(seq, n) ==
    IF n >= 0 THEN SubSeq(seq, 1, Min(n, Len(seq)))
    ELSE SubSeq(seq, 1, Max(0, Len(seq) + n))

\* TavilySearchAgent._mock_search
_mock_search(query, max_results) ==
    LET samples == << "I hate waiting on hold when dealing with " \o query,
                      "The chatbot is useless for " \o query,
                      query \o " made my workflow easier" >>
    IN  SliceTo([k \in DOMAIN samples |-> PyStr(samples[k])], max_results)

\* str(item), for an item that has neither snippet nor text
StrOf(item) == [type |-> "str", str_of |-> item]

\* item.get('snippet') or item.get('text') or str(item)
text_of(item) ==
    OrElse(DictGet(item, "snippet", PyNone), OrElse(DictGet(item, "text", PyNone), StrOf(item)))

\* what the try block of one attempt comes to, given what the session does:
\* the list of texts, or the exception raised by get, by raise_for_status, by
\* json, or by the handling of data that does not have the expected shape
attempt_outcome(response) ==
    IF response.kind # "json"
    THEN Raised(response.kind)
    ELSE IF response.data.type # "dict"
    THEN Raised("AttributeError")
    ELSE LET results == DictGet(response.data, "results", [type |-> "list", items |-> <<>>])
         IN  IF results.type # "list"
             THEN Raised("TypeError")
             ELSE IF \E k \in DOMAIN results.items : results.items[k].type # "dict"
             THEN Raised("AttributeError")
             ELSE Returned([k \in DOMAIN results.items |-> text_of(results.items[k])])

ATTEMPTS == 3
FIRST_BACKOFF == 1
BACKOFF_FACTOR == 2

\* (variant: the mock results are used only after one more attempt)
is_last_attempt_late(attempt) == attempt = ATTEMPTS + 1

\* if attempt == attempts
is_last_attempt(attempt) == attempt = ATTEMPTS

\* the agent as constructed, with no search under way
TavilyAgent(api_key, session) ==
    [api_key |-> api_key, session |-> session, pc |-> "idle",
     attempt |-> 0, backoff |-> 0, responses |-> <<>>, sleeps |-> <<>>]

-----------------------------------------------------------------------------
(* The search agent as a state machine *)

PyList(items) == [type |-> "list", items |-> items]

\* what the session can do with one request: raise in get (no connection,
\* timeout), in raise_for_status or in json, or deliver JSON data
Responses ==
    { [kind |-> k] : k \in {"ConnectionError", "HTTPError", "JSONDecodeError"} }
    \cup { [kind |-> "json", data |-> d] : d \in {
             PyDict(("results" :> PyList(<<PyDict(("snippet" :> PyStr("so slow")))>>))),
             PyDict(("results" :> PyList(<<PyDict(("snippet" :> PyStr("")) @@ ("text" :> PyStr("broken"))),
                                           PyDict(("id" :> PyInt(1)))>>))),
             PyDict(("status" :> PyStr("ok"))),
             PyDict(("results" :> PyNone)),
             PyDict(("results" :> PyList(<<PyStr("broken")>>))),
             PyList(<<>>) } }

SearchQueries == {"crash", "customer service complaints"}
MaxResultsValues == {0 - 1, 0, 2, 10}
Environs == {<<>>, ("TAVILY_API_KEY" :> PyStr("env-key"))}

\* TavilySearchAgent(api_key, session): the key given or the one of the
\* environment, the session given or a new one when requests can be imported
InitTavily ==
    /\ supplied = PyNone
    /\ max_age_months = NoAttr
    /\ feedback_log = <<>>
    /\ validated_details = NoAttr
    /\ op = [name |-> "__init__"]
    /\ ret = Returned(PyNone)
    /\ query_agent = NoObject
    /\ workflow = NoObject
    /\ \E api_key \in {PyNone, PyStr(""), PyStr("key")}, environ \in Environs,
          session \in {PyNone, Session}, requests \in BOOLEAN :
          tavily = TavilyAgent(OrElse(api_key, get_env(environ, "TAVILY_API_KEY")),
                               IF session = PyNone
                               THEN (IF requests THEN Session ELSE PyNone)
                               ELSE session)

\* agent.search(query, max_results) is called: without key or session it
\* returns the mock results at once, otherwise it enters the retry loop
Search ==
    /\ tavily.pc = "idle"
    /\ \E query \in SearchQueries, max_results \in MaxResultsValues :
         /\ op' = [name |-> "search", query |-> query, max_results |-> max_results]
         /\ IF ~Truthy(tavily.api_key) \/ ~Truthy(tavily.session)
            THEN /\ ret' = Returned(_mock_search(query, max_results))
                 /\ tavily' = [tavily EXCEPT !.pc = "done"]
            ELSE /\ ret' = ret
                 /\ tavily' = [tavily EXCEPT !.pc = "request", !.attempt = 1,
                                             !.backoff = FIRST_BACKOFF]
    /\ UNCHANGED <<query_agent, workflow, supplied, max_age_months, feedback_log,
                   validated_details>>

\* one pass through the try block: the request and the reading of its answer
Request ==
    /\ tavily.pc = "request"
    /\ \E response \in Responses :
         \E outcome \in {attempt_outcome(response)} :
           IF outcome.type = "returned"
           THEN /\ ret' = outcome
                /\ tavily' = [tavily EXCEPT !.pc = "done",
                                            !.responses = Append(@, response)]
           ELSE IF is_last_attempt(tavily.attempt)
           THEN /\ ret' = Returned(_mock_search(op.query, op.max_results))
                /\ tavily' = [tavily EXCEPT !.pc = "done",
                                            !.responses = Append(@, response)]
           ELSE /\ ret' = ret
                /\ tavily' = [tavily EXCEPT !.pc = "sleep",
                                            !.responses = Append(@, response)]
    /\ UNCHANGED <<query_agent, workflow, supplied, max_age_months, feedback_log,
                   validated_details, op>>

\* time.sleep(backoff); backoff *= 2; and the loop goes to the next attempt
Sleep ==
    /\ tavily.pc = "sleep"
    /\ tavily' = [tavily EXCEPT !.pc = "request", !.attempt = @ + 1,
                                !.sleeps = Append(@, tavily.backoff),
                                !.backoff = @ * BACKOFF_FACTOR]
    /\ UNCHANGED <<query_agent, workflow, supplied, max_age_months, feedback_log,
                   validated_details, op, ret>>

SpecTavily == InitTavily /\ [][Search \/ Request \/ Sleep]_vars

-----------------------------------------------------------------------------
(* Properties of TavilySearchAgent.search *)

\* the attempt with this answer failed
Failed(response) == attempt_outcome(response).type = "raised"

\* the waits the claim allows after n failed attempts: 1 s, then 2 s
WaitsAfter(n) == SubSeq(<<1, 2>>, 1, Min(n, 2))

Configured == Truthy(tavily.api_key) /\ Truthy(tavily.session)

\* C17: search with an API key and a session makes at most 3 request
\* attempts, waits 1 s after the first failure and 2 s after the second and
\* does not wait after the third; it returns the results of the first attempt
\* that succeeds without attempting again, and the mock results when all 3
\* attempts fail; without key or session it returns the mock results with no
\* attempt; in every case it returns a list and raises nothing.
C17_ThreeAttemptsThenMock ==
    \A n \in {Len(tavily.responses)} :
      /\ n <= 3
      /\ \A k \in 1..(n - 1) : Failed(tavily.responses[k])
      /\ tavily.pc \in {"request", "sleep"} =>
             /\ Configured
             /\ n < 3
             /\ \A k \in 1..n : Failed(tavily.responses[k])
             /\ tavily.sleeps = WaitsAfter(IF tavily.pc = "sleep" THEN n - 1 ELSE n)
      /\ tavily.pc = "done" =>
             /\ ret.type = "returned"
             /\ DOMAIN ret.value = 1..Len(ret.value)
             /\ IF ~Configured
                THEN /\ n = 0
                     /\ tavily.sleeps = <<>>
                     /\ ret.value = _mock_search(op.query, op.max_results)
                ELSE /\ n >= 1
                     /\ tavily.sleeps = WaitsAfter(n - 1)
                     /\ IF Failed(tavily.responses[n])
                        THEN n = 3 /\ ret.value = _mock_search(op.query, op.max_results)
                        ELSE ret = attempt_outcome(tavily.responses[n])

\* a search whose first two attempts failed returned the results of the third
C17_Witness ==
    /\ tavily.pc = "done"
    /\ Configured
    /\ Len(tavily.responses) = 3
    /\ ~Failed(tavily.responses[3])
    /\ tavily.sleeps = <<1, 2>>
    /\ Len(ret.value) = 2

\* a search whose three attempts failed returned the mock results
C17_WitnessMock ==
    /\ tavily.pc = "done"
    /\ Configured
    /\ Len(tavily.responses) = 3
    /\ Failed(tavily.responses[3])
    /\ Len(ret.value) = 3

-----------------------------------------------------------------------------
(* Search_and_Retrieval_Agent (scraper_agent.py), Synthesis_Agent and Workflow *)

\* query.replace(" ", "-")
RECURSIVE Dashed(_)
Dashed(q) ==
    IF q = "" THEN ""
    ELSE (IF SubSeq(q, 1, 1) = " " THEN "-" ELSE SubSeq(q, 1, 1)) \o Dashed(Tail(q))

\* str(i) for a small index i
IndexStr(i) == <<"0", "1", "2", "3", "4", "5", "6", "7", "8", "9">>[i + 1]

\* Search_and_Retrieval_Agent._normalize_snippets; fetched is the clock read
\* by datetime.utcnow(), spelled with microseconds and a trailing Z
_normalize_snippets(snippets, query, source, fetched) ==
    [i \in DOMAIN snippets |->
        Dict4("text", snippets[i],
              "url", PyStr("https://" \o source \o ".example/" \o Dashed(query) \o "/"
                           \o IndexStr(i - 1)),
              "timestamp", TsStr("iso_us_z", fetched),
              "source", PyStr(source))]

_mock_results(query, fetched) ==
    _normalize_snippets(<< PyStr("I hate waiting on hold when dealing with " \o query),
                           PyStr("The chatbot is useless for " \o query),
                           PyStr(query \o " made my workflow easier") >>,
                        query, "mock", fetched)

_mock_reddit(query, fetched) ==
    _normalize_snippets(<< PyStr("Reddit post: Ugh, " \o query \o " is the worst") >>,
                        query, "reddit", fetched)

_mock_twitter(query, fetched) ==
    _normalize_snippets(<< PyStr("Twitter: can't believe " \o query \o " broke again") >>,
                        query, "twitter", fetched)

\* the default of the parameter max_results of TavilySearchAgent.search
DEFAULT_MAX_RESULTS == 10

\* what execute_queries gathers for one query; tool is self.tools['tavily']:
\* NoObject (None), or an agent that has no API key and so serves its mock
\* search
results_for(tool, q, source_filters, fetched) ==
    (IF tool # NoObject
     THEN _normalize_snippets(_mock_search(q, DEFAULT_MAX_RESULTS), q, "tavily", fetched)
     ELSE _mock_results(q, fetched))
    \o (IF \E k \in DOMAIN source_filters : Contains("reddit", source_filters[k])
        THEN _mock_reddit(q, fetched) ELSE <<>>)
    \o (IF \E k \in DOMAIN source_filters :
              Lower(source_filters[k]) \in {Chars("twitter"), Chars("x")}
        THEN _mock_twitter(q, fetched) ELSE <<>>)

\* Search_and_Retrieval_Agent.execute_queries
execute_queries(tool, generated_queries, source_filters, fetched) ==
    Flatten([k \in DOMAIN generated_queries |->
                results_for(tool, generated_queries[k], source_filters, fetched)])

\* Synthesis_Agent.compile_report (the second definition of the class, which
\* is the one in force): numbered items with quote, source and date
compile_report(validated_pain_points) ==
    [title |-> "Pain Points Report",
     items |-> [k \in DOMAIN validated_pain_points |->
                  LET p == validated_pain_points[k]
                  IN  IF p.type = "str"
                      THEN [pain_point |-> p, source |-> PyStr("unknown"), timestamp |-> PyNone]
                      ELSE IF p.type = "dict"
                      THEN [pain_point |-> OrElse(DictGet(p, "pain_point", PyNone),
                                           OrElse(DictGet(p, "quote", PyNone), StrOf(p))),
                            source |-> DictGet(p, "source", PyStr("unknown")),
                            timestamp |-> DictGet(p, "timestamp", PyNone)]
                      ELSE [pain_point |-> StrOf(p), source |-> PyStr("unknown"),
                            timestamp |-> PyNone]]]

SOURCE_FILTERS == <<"social media", "forums">>

\* the outcome the sklearn path is given in a run: it fails, or it labels the
\* quotes by their first position.  (The labels do not reach the result of
\* run, which holds the quotes only.)
RunPrimary(sklearn, quotes) ==
    IF ~sklearn \/ quotes = <<>>
    THEN [ok |-> FALSE]
    ELSE [ok |-> TRUE,
          labels |-> [q \in Range(quotes) |->
                        ((CHOOSE i \in DOMAIN quotes :
                             quotes[i] = q /\ \A j \in 1..(i - 1) : quotes[j] # q) - 1)
                        % n_clusters(Len(quotes))]]

\* self.validation_agent.validate_results(raw_results) inside a run
run_validate(raw_results, months, old_details, env, sklearn) ==
    LET f == survivors(raw_results, months, env)
    IN  collate(f, old_details, RunPrimary(sklearn, QuotesOf(f.normalized)))

\* the strs of a list of queries, as Python values
AsPyStrs(queries) == [k \in DOMAIN queries |-> PyStr(queries[k])]

\* "integrate outputs into state": a list goes to state["raw_results"], which
\* it becomes when that key is missing or empty and extends otherwise; None
\* and a str (the report) are ignored
integrate(state, out) ==
    IF out.type # "list"
    THEN state
    ELSE IF ~state.has_raw_results \/ Len(state.raw_results) = 0
    THEN [has_raw_results |-> TRUE, raw_results |-> out.items]
    ELSE [has_raw_results |-> TRUE, raw_results |-> state.raw_results \o out.items]

\* what executing a node hands back: the value of the wrapped callable when
\* the node runs it (through its `callable` attribute or a run method), None
\* when the node has no way to run it
node_out(nodes, value) == IF nodes = "inert" THEN PyNone ELSE value

\* a value computed once and then used under a name
Bound(S) == CHOOSE x \in S : TRUE

\* the value of run() and the validation agent after it
run_result(validated) ==
    Bound({ [feedback_log |-> r.feedback_log, validated_details |-> r.validated_details,
             ret |-> IF r.ret.type = "raised"
                     THEN r.ret
                     ELSE Returned([pain_points |-> r.ret.value,
                                    report |-> compile_report(r.ret.value)])]
            : r \in {validated} })

\* Workflow.run, local sequential fallback
run_sequential(wf, tool, months, old_details, env, fetched, sklearn) ==
    LET generated_queries ==
            generate_queries(wf.subject, wf.target_audience, <<>>, DEFAULT_MAX_QUERIES)
        raw_results == execute_queries(tool, generated_queries, SOURCE_FILTERS, fetched)
    IN  run_result(run_validate(raw_results, months, old_details, env, sklearn))

\* the validator node and what follows it: the list it puts out joins
\* state["raw_results"]; the aggregator's report is a str and is ignored;
\* nothing has set state["validated_pain_points"], so the state's raw results
\* are validated once more.  An exception leaves run() when the node runs its
\* `callable`; one of a run method is swallowed and the node puts out None.
run_graph_end(wf, state2, r3, months, env, sklearn) ==
    IF r3.ret.type = "raised" /\ wf.nodes = "callable"
    THEN run_result(r3)
    ELSE LET out3 == IF r3.ret.type = "raised"
                     THEN PyNone
                     ELSE node_out(wf.nodes, PyList(r3.ret.value))
             state3 == integrate(state2, out3)
         IN  run_result(run_validate(state3.raw_results, months, r3.validated_details,
                                     env, sklearn))

\* Workflow.run in graph mode: the four nodes one after another over the
\* shared state, then validation and synthesis of what the state holds
run_graph(wf, tool, months, old_details, env, fetched, sklearn) ==
    LET state0 == [has_raw_results |-> FALSE, raw_results |-> <<>>]
        out1 == node_out(wf.nodes,
                    PyList(AsPyStrs(generate_queries(wf.subject, wf.target_audience, <<>>,
                                                     DEFAULT_MAX_QUERIES))))
        state1 == integrate(state0, out1)
        \* the searcher reads state["generated_queries"], which no node sets
        out2 == node_out(wf.nodes, PyList(execute_queries(tool, <<>>, SOURCE_FILTERS, fetched)))
    IN  Bound({ Bound({ run_graph_end(wf, state2, r3, months, env, sklearn)
                        : r3 \in { IF wf.nodes = "inert"
                                   THEN [feedback_log |-> feedback_log,
                                         validated_details |-> old_details,
                                         ret |-> Returned(<<>>)]
                                   ELSE run_validate(state2.raw_results, months, old_details,
                                                     env, sklearn) } })
                : state2 \in {integrate(state1, out2)} })

\* Workflow.run
run(wf, tool, months, old_details, env, fetched, sklearn) ==
    IF wf.use_graph
    THEN run_graph(wf, tool, months, old_details, env, fetched, sklearn)
    ELSE run_sequential(wf, tool, months, old_details, env, fetched, sklearn)

-----------------------------------------------------------------------------
(* The workflow as a state machine *)

DEFAULT_SUBJECT == "customer service"
DEFAULT_AUDIENCE == PyStr("users")

RunSubjects == {DEFAULT_SUBJECT, "broken app"}
RunAudiences == {DEFAULT_AUDIENCE, PyNone}

\* how the graph library was found at construction: not at all or not wired
\* (local mode), or wired with nodes of one of three kinds
Wirings ==
    { [use_graph |-> FALSE, nodes |-> "none"] }
    \cup { [use_graph |-> TRUE, nodes |-> n] : n \in {"callable", "method", "inert"} }

\* Workflow(subject, target_audience): its four agents, and the graph when
\* the library is there.  The retrieval agent has no tavily tool, or one
\* without an API key.
InitWorkflow ==
    /\ supplied = PyNone
    /\ max_age_months = init_max_age_months(supplied)
    /\ feedback_log = <<>>
    /\ validated_details = NoAttr
    /\ op = [name |-> "__init__"]
    /\ ret = Returned(PyNone)
    /\ query_agent = [max_queries |-> DEFAULT_MAX_QUERIES]
    /\ tavily \in {NoObject, TavilyAgent(PyNone, Session)}
    /\ \E subject \in RunSubjects, target_audience \in RunAudiences, w \in Wirings :
          workflow = [subject |-> subject, target_audience |-> target_audience,
                      use_graph |-> w.use_graph, nodes |-> w.nodes]

\* one call workflow.run()
Run ==
    /\ op.name = "__init__"
    /\ \E env \in Envs, sklearn \in BOOLEAN :
         \* results are stamped with the clock of the same call
         \E fetched \in {env.now} :
         \E r \in {run(workflow, tavily, max_age_months, validated_details, env, fetched,
                       sklearn)} :
            /\ feedback_log' = r.feedback_log
            /\ validated_details' = r.validated_details
            /\ ret' = r.ret
            /\ op' = [name |-> "run", env |-> env, fetched |-> fetched, sklearn |-> sklearn]
            /\ UNCHANGED <<query_agent, tavily, workflow, supplied, max_age_months>>

SpecWorkflow == InitWorkflow /\ [][Run]_vars

-----------------------------------------------------------------------------
(* Properties of Workflow.run *)

DefaultWorkflow ==
    workflow.subject = DEFAULT_SUBJECT /\ workflow.target_audience = DEFAULT_AUDIENCE

\* C15: with the default Workflow and retrieval served by the built-in mock
\* results, run() returns a dictionary whose 'pain_points' value is a
\* non-empty list, in graph mode and in the sequential fallback alike.
C15_DefaultRunFindsPainPoints ==
    (op.name = "run" /\ DefaultWorkflow) =>
        /\ ret.type = "returned"
        /\ "pain_points" \in DOMAIN ret.value
        /\ Len(ret.value.pain_points) > 0

-----------------------------------------------------------------------------
(* The value handed back by validate_results *)

\* C12: the value validate_results hands to its caller is the ordered list of
\* validated records, the same records as validated_details, each with quote,
\* source, url, timestamp and a non-negative integer cluster id.
C12_ReturnsTheValidatedRecords ==
    ValidateReturned =>
        /\ ret.value = validated_details
        /\ \A k \in DOMAIN ret.value :
               /\ DOMAIN ret.value[k] = {"quote", "source", "url", "timestamp", "cluster"}
               /\ ret.value[k].cluster \in Nat

\* C13: for every batch that is a sequence, validate_results returns
\* normally: no element, whatever its type and field values, makes the call
\* raise or keeps the remaining elements from being processed.
C13_NeverRaises ==
    op.name = "validate_results" => ret.type = "returned"

-----------------------------------------------------------------------------
(* Properties of calls made one after another on one agent *)

\* C11: after any call in a sequence of validate_results calls on one agent,
\* the feedback log, the value handed back and validated_details are those the
\* same batch (with the same clock) gives on a fresh agent: nothing of an
\* earlier call survives.
C11_CallDependsOnlyOnItsBatch ==
    op.name = "validate_results" =>
        \A fresh \in {validate_results(op.raw_results, max_age_months, NoAttr,
                                       op.env, op.primary)} :
            /\ feedback_log = fresh.feedback_log
            /\ validated_details = fresh.validated_details
            /\ ret = fresh.ret

====
